---- MODULE Spec2Model ----
(***************************************************************************)
(* The relational data model of core/models.py (Django ORM): one variable  *)
(* per database table, one action per ORM operation on it (objects.create, *)
(* save, delete, the many-to-many add/remove).  Only the columns that      *)
(* carry a relationship are kept: names, numbers, prices and timestamps    *)
(* take part in no constraint of the schema.                               *)
(*                                                                         *)
(* A row is identified by a key <<table, id>>.  A child table of a         *)
(* multi-table inheritance (Garcom, Caixa, ..., PagamentoCheque) is keyed  *)
(* by the id of its base row (usuario_ptr / pagamento_ptr).                *)
(***************************************************************************)
EXTENDS Integers, FiniteSets, Sequences, TLC

\* ------------------------------------------------------------------ bounds
\* Number of rows a table may hold at a time.
MaxUsuario == 2
MaxRestaurante == 2
MaxCategoria == 2
MaxPagamento == 2
\* Tables of which one row is enough to build every relationship.
MaxRow == 1
\* The concurrent pay operations.
Procs == {1, 2}

\* The database is explored one part of the schema at a time: a scope names
\* the tables a run may fill, and with how many rows.  "ptr" stands for the
\* creation of a role for a person that exists, "bare" for the creation of
\* a Usuario or a Pagamento that is no instance of a subclass.
Scopes == {"staff", "roles", "menu", "order", "payment"}
Limit(s, t) ==
    CASE s = "staff" ->
           (CASE t \in {"Usuario", "Garcom", "Caixa"} -> MaxUsuario
              [] t = "Restaurante" -> MaxRestaurante
              [] t \in {"Mesa", "Conta", "ptr", "bare"} -> MaxRow
              [] OTHER -> 0)
      [] s = "roles" ->
           (CASE t \in {"Usuario", "Caixa", "Cozinha", "Gerente"} -> MaxUsuario
              [] t \in {"ptr", "bare"} -> MaxRow
              [] OTHER -> 0)
      [] s = "menu" ->
           (CASE t \in {"Usuario", "Gerente", "ItemCardapio"} -> MaxRow
              [] t = "Cardapio" -> MaxRow + 1
              [] t = "Categoria" -> MaxCategoria
              [] OTHER -> 0)
      [] s = "order" ->
           (CASE t = "Usuario" -> 3 * MaxRow
              [] t \in {"Restaurante", "Garcom", "Cozinha", "Gerente", "Mesa", "Cliente",
                        "Cardapio", "Categoria", "ItemCardapio", "Conta", "Pedido",
                        "ItemPedido", "Pagamento", "PagamentoCartao"} -> MaxRow
              [] OTHER -> 0)
      [] s = "payment" ->
           (CASE t \in {"Usuario", "Restaurante", "Garcom", "Mesa", "bare"} -> MaxRow
              [] t \in {"Conta", "Pagamento", "PagamentoDinheiro", "PagamentoCartao",
                        "PagamentoCheque"} -> MaxPagamento
              [] OTHER -> 0)
      [] s = "pay" ->
           (CASE t \in {"Usuario", "Restaurante", "Garcom", "Mesa"} -> MaxRow
              [] t \in {"Conta", "Pagamento", "PagamentoDinheiro", "PagamentoCartao",
                        "PagamentoCheque"} -> MaxPagamento
              [] OTHER -> 0)

\* NULL of a nullable foreign key (Categoria.categoria_pai).
NULL == 0

\* ------------------------------------------------------------------ schema
\* on_delete of every relationship, as declared.
Garcom_restaurante_on_delete_CASCADE == "CASCADE"
Garcom_restaurante_on_delete == "PROTECT"
Mesa_restaurante_on_delete == "CASCADE"
Mesa_garcom_on_delete_CASCADE == "CASCADE"
Mesa_garcom_on_delete == "PROTECT"
Cardapio_gerente_on_delete_CASCADE == "CASCADE"
Cardapio_gerente_on_delete == "PROTECT"
Categoria_categoria_pai_on_delete == "CASCADE"
ItemCardapio_cardapio_on_delete == "CASCADE"
ItemCardapio_categoria_on_delete == "CASCADE"
Conta_mesa_on_delete_CASCADE == "CASCADE"
Conta_mesa_on_delete == "PROTECT"
Pedido_conta_on_delete == "CASCADE"
Pedido_cliente_on_delete == "PROTECT"
Pedido_cozinha_on_delete == "PROTECT"
ItemPedido_pedido_on_delete == "CASCADE"
ItemPedido_item_cardapio_on_delete == "PROTECT"
Pagamento_conta_on_delete == "CASCADE"
\* The parent link of a subclass of a concrete model (usuario_ptr,
\* pagamento_ptr) and the two columns of the table of a ManyToManyField are
\* created by Django with on_delete CASCADE.
parent_link_on_delete == "CASCADE"
Conta_caixas_on_delete == "CASCADE"

\* A OneToOneField is a foreign key with a unique constraint.
Cardapio_gerente_unique == TRUE
Pagamento_conta_unique_FALSE == FALSE
Pagamento_conta_unique == TRUE

OnDelete(field) ==
    CASE field = "Garcom.restaurante" -> Garcom_restaurante_on_delete
      [] field = "Mesa.restaurante" -> Mesa_restaurante_on_delete
      [] field = "Mesa.garcom" -> Mesa_garcom_on_delete
      [] field = "Cardapio.gerente" -> Cardapio_gerente_on_delete
      [] field = "Categoria.categoria_pai" -> Categoria_categoria_pai_on_delete
      [] field = "ItemCardapio.cardapio" -> ItemCardapio_cardapio_on_delete
      [] field = "ItemCardapio.categoria" -> ItemCardapio_categoria_on_delete
      [] field = "Conta.mesa" -> Conta_mesa_on_delete
      [] field = "Pedido.conta" -> Pedido_conta_on_delete
      [] field = "Pedido.cliente" -> Pedido_cliente_on_delete
      [] field = "Pedido.cozinha" -> Pedido_cozinha_on_delete
      [] field = "ItemPedido.pedido" -> ItemPedido_pedido_on_delete
      [] field = "ItemPedido.item_cardapio" -> ItemPedido_item_cardapio_on_delete
      [] field = "Pagamento.conta" -> Pagamento_conta_on_delete
      [] field \in {"Conta_caixas.conta", "Conta_caixas.caixa"} -> Conta_caixas_on_delete
      [] OTHER -> parent_link_on_delete

\* ------------------------------------------------------------------- state
VARIABLES
    Usuario,            \* set of ids
    Restaurante,        \* set of ids
    Garcom,             \* usuario_ptr -> [restaurante]
    Caixa,              \* set of usuario_ptr
    Cozinha,            \* set of usuario_ptr
    Gerente,            \* set of usuario_ptr
    Mesa,               \* id -> [restaurante, garcom]
    Cliente,            \* set of ids
    Cardapio,           \* id -> [gerente]
    Categoria,          \* id -> [categoria_pai]
    ItemCardapio,       \* id -> [cardapio, categoria]
    Conta,              \* id -> [mesa]
    Conta_caixas,       \* set of <<conta, caixa>>: the table of Conta.caixas
    Pedido,             \* id -> [conta, cliente, cozinha]
    ItemPedido,         \* id -> [pedido, item_cardapio]
    Pagamento,          \* id -> [conta]
    PagamentoDinheiro,  \* set of pagamento_ptr
    PagamentoCartao,    \* set of pagamento_ptr
    PagamentoCheque,    \* set of pagamento_ptr
    result,             \* what the last operation returned or raised
    pc,                 \* position of each concurrent pay operation
    scope               \* the part of the schema this run explores

store == <<Usuario, Restaurante, Garcom, Caixa, Cozinha, Gerente, Mesa, Cliente,
           Cardapio, Categoria, ItemCardapio, Conta, Conta_caixas, Pedido,
           ItemPedido, Pagamento, PagamentoDinheiro, PagamentoCartao,
           PagamentoCheque>>
vars == <<store, result, pc, scope>>

\* The primary keys of table t, and whether it may take one more row.
Ids(t) == 1..Limit(scope, t)
Room(rows, t) == Cardinality(rows) < Limit(scope, t)

\* Every row of the database, as a key.
Keys ==
    {<<"Usuario", i>> : i \in Usuario}
    \cup {<<"Restaurante", i>> : i \in Restaurante}
    \cup {<<"Garcom", i>> : i \in DOMAIN Garcom}
    \cup {<<"Caixa", i>> : i \in Caixa}
    \cup {<<"Cozinha", i>> : i \in Cozinha}
    \cup {<<"Gerente", i>> : i \in Gerente}
    \cup {<<"Mesa", i>> : i \in DOMAIN Mesa}
    \cup {<<"Cliente", i>> : i \in Cliente}
    \cup {<<"Cardapio", i>> : i \in DOMAIN Cardapio}
    \cup {<<"Categoria", i>> : i \in DOMAIN Categoria}
    \cup {<<"ItemCardapio", i>> : i \in DOMAIN ItemCardapio}
    \cup {<<"Conta", i>> : i \in DOMAIN Conta}
    \cup {<<"Conta_caixas", l>> : l \in Conta_caixas}
    \cup {<<"Pedido", i>> : i \in DOMAIN Pedido}
    \cup {<<"ItemPedido", i>> : i \in DOMAIN ItemPedido}
    \cup {<<"Pagamento", i>> : i \in DOMAIN Pagamento}
    \cup {<<"PagamentoDinheiro", i>> : i \in PagamentoDinheiro}
    \cup {<<"PagamentoCartao", i>> : i \in PagamentoCartao}
    \cup {<<"PagamentoCheque", i>> : i \in PagamentoCheque}

\* Every non-null reference held by a row: <<referring row, field, target>>.
Refs ==
    {<<<<"Garcom", i>>, "Garcom.usuario_ptr", <<"Usuario", i>>>> : i \in DOMAIN Garcom}
    \cup {<<<<"Caixa", i>>, "Caixa.usuario_ptr", <<"Usuario", i>>>> : i \in Caixa}
    \cup {<<<<"Cozinha", i>>, "Cozinha.usuario_ptr", <<"Usuario", i>>>> : i \in Cozinha}
    \cup {<<<<"Gerente", i>>, "Gerente.usuario_ptr", <<"Usuario", i>>>> : i \in Gerente}
    \cup {<<<<"Garcom", i>>, "Garcom.restaurante", <<"Restaurante", Garcom[i].restaurante>>>> :
            i \in DOMAIN Garcom}
    \cup {<<<<"Mesa", i>>, "Mesa.restaurante", <<"Restaurante", Mesa[i].restaurante>>>> :
            i \in DOMAIN Mesa}
    \cup {<<<<"Mesa", i>>, "Mesa.garcom", <<"Garcom", Mesa[i].garcom>>>> : i \in DOMAIN Mesa}
    \cup {<<<<"Cardapio", i>>, "Cardapio.gerente", <<"Gerente", Cardapio[i].gerente>>>> :
            i \in DOMAIN Cardapio}
    \cup {<<<<"Categoria", i>>, "Categoria.categoria_pai",
            <<"Categoria", Categoria[i].categoria_pai>>>> :
            i \in {c \in DOMAIN Categoria : Categoria[c].categoria_pai # NULL}}
    \cup {<<<<"ItemCardapio", i>>, "ItemCardapio.cardapio",
            <<"Cardapio", ItemCardapio[i].cardapio>>>> : i \in DOMAIN ItemCardapio}
    \cup {<<<<"ItemCardapio", i>>, "ItemCardapio.categoria",
            <<"Categoria", ItemCardapio[i].categoria>>>> : i \in DOMAIN ItemCardapio}
    \cup {<<<<"Conta", i>>, "Conta.mesa", <<"Mesa", Conta[i].mesa>>>> : i \in DOMAIN Conta}
    \cup {<<<<"Conta_caixas", l>>, "Conta_caixas.conta", <<"Conta", l[1]>>>> : l \in Conta_caixas}
    \cup {<<<<"Conta_caixas", l>>, "Conta_caixas.caixa", <<"Caixa", l[2]>>>> : l \in Conta_caixas}
    \cup {<<<<"Pedido", i>>, "Pedido.conta", <<"Conta", Pedido[i].conta>>>> : i \in DOMAIN Pedido}
    \cup {<<<<"Pedido", i>>, "Pedido.cliente", <<"Cliente", Pedido[i].cliente>>>> :
            i \in DOMAIN Pedido}
    \cup {<<<<"Pedido", i>>, "Pedido.cozinha", <<"Cozinha", Pedido[i].cozinha>>>> :
            i \in DOMAIN Pedido}
    \cup {<<<<"ItemPedido", i>>, "ItemPedido.pedido", <<"Pedido", ItemPedido[i].pedido>>>> :
            i \in DOMAIN ItemPedido}
    \cup {<<<<"ItemPedido", i>>, "ItemPedido.item_cardapio",
            <<"ItemCardapio", ItemPedido[i].item_cardapio>>>> : i \in DOMAIN ItemPedido}
    \cup {<<<<"Pagamento", i>>, "Pagamento.conta", <<"Conta", Pagamento[i].conta>>>> :
            i \in DOMAIN Pagamento}
    \cup {<<<<"PagamentoDinheiro", i>>, "PagamentoDinheiro.pagamento_ptr", <<"Pagamento", i>>>> :
            i \in PagamentoDinheiro}
    \cup {<<<<"PagamentoCartao", i>>, "PagamentoCartao.pagamento_ptr", <<"Pagamento", i>>>> :
            i \in PagamentoCartao}
    \cup {<<<<"PagamentoCheque", i>>, "PagamentoCheque.pagamento_ptr", <<"Pagamento", i>>>> :
            i \in PagamentoCheque}

\* The base table of a child table ("" for a table that has none).
ParentTable(t) ==
    IF t \in {"Garcom", "Caixa", "Cozinha", "Gerente"} THEN "Usuario"
    ELSE IF t \in {"PagamentoDinheiro", "PagamentoCartao", "PagamentoCheque"} THEN "Pagamento"
    ELSE ""

\* ------------------------------------------------------------ the database
\* The foreign-key constraints of the tables: every reference of R has its
\* target among the rows K.
ForeignKeysHold_unchecked(K, R) == TRUE
ForeignKeysHold(K, R) == \A r \in R : r[3] \in K

\* Outcomes of an operation: the value returned or the exception raised, and
\* for a delete() or an exception the operation it came from.  delete()
\* returns the number of rows it removed.
Ok(op) == [op |-> "", status |-> "ok", deleted |-> 0]
Deleted(op, n) == [op |-> op, status |-> "ok", deleted |-> n]
IntegrityError(op) == [op |-> op, status |-> "IntegrityError", deleted |-> 0]
ProtectedError(op) == [op |-> op, status |-> "ProtectedError", deleted |-> 0]

Fail(r) == result' = r /\ UNCHANGED <<store, pc, scope>>

\* The smallest primary key not in use (the action is disabled when the
\* table is full).
FreeIds(used, ids) == {i \in ids : i \notin used /\ \A j \in ids : j < i => j \in used}

Restrict(f, t, D) == [i \in {j \in DOMAIN f : <<t, j>> \notin D} |-> f[i]]
Without(s, t, D) == {i \in s : <<t, i>> \notin D}

\* ------------------------------------------------------ deletion (Collector)
\* Collector.collect with collect_related: the rows S and, transitively,
\* every row that refers to one of them through a CASCADE field.
RECURSIVE CollectRelated(_, _)
CollectRelated(S, R) ==
    LET N == S \cup {r[1] : r \in {x \in R : x[3] \in S /\ OnDelete(x[2]) = "CASCADE"}}
    IN IF N = S THEN S ELSE CollectRelated(N, R)

\* The base rows of the collected child rows: collected as well
\* (keep_parents = False), but without the rows related to them.
CollectParents(F) ==
    {<<ParentTable(k[1]), k[2]>> : k \in {x \in F : ParentTable(x[1]) # ""}}

\* References through a PROTECT field to a collected row: any of them makes
\* collect raise ProtectedError, before a single row is deleted.
ProtectedObjects(F, R) == {r \in R : r[3] \in F /\ OnDelete(r[2]) = "PROTECT"}

DeleteRows(D) ==
    /\ Usuario' = Without(Usuario, "Usuario", D)
    /\ Restaurante' = Without(Restaurante, "Restaurante", D)
    /\ Garcom' = Restrict(Garcom, "Garcom", D)
    /\ Caixa' = Without(Caixa, "Caixa", D)
    /\ Cozinha' = Without(Cozinha, "Cozinha", D)
    /\ Gerente' = Without(Gerente, "Gerente", D)
    /\ Mesa' = Restrict(Mesa, "Mesa", D)
    /\ Cliente' = Without(Cliente, "Cliente", D)
    /\ Cardapio' = Restrict(Cardapio, "Cardapio", D)
    /\ Categoria' = Restrict(Categoria, "Categoria", D)
    /\ ItemCardapio' = Restrict(ItemCardapio, "ItemCardapio", D)
    /\ Conta' = Restrict(Conta, "Conta", D)
    /\ Conta_caixas' = Without(Conta_caixas, "Conta_caixas", D)
    /\ Pedido' = Restrict(Pedido, "Pedido", D)
    /\ ItemPedido' = Restrict(ItemPedido, "ItemPedido", D)
    /\ Pagamento' = Restrict(Pagamento, "Pagamento", D)
    /\ PagamentoDinheiro' = Without(PagamentoDinheiro, "PagamentoDinheiro", D)
    /\ PagamentoCartao' = Without(PagamentoCartao, "PagamentoCartao", D)
    /\ PagamentoCheque' = Without(PagamentoCheque, "PagamentoCheque", D)

\* Model.delete() of the row k, in one transaction: collect, then delete the
\* collected rows; a foreign key left dangling makes the database raise
\* IntegrityError and the transaction roll back.
Delete(op, k) ==
    LET R == Refs
        F == CollectRelated({k}, R)
        D == F \cup CollectParents(F)
    IN  IF ProtectedObjects(F, R) # {} THEN Fail(ProtectedError(op))
        ELSE IF ~ForeignKeysHold(Keys \ D, {r \in R : r[1] \notin D})
             THEN Fail(IntegrityError(op))
        ELSE /\ DeleteRows(D)
             /\ result' = Deleted(op, Cardinality(D))
             /\ UNCHANGED <<pc, scope>>

Usuario_delete(i) == i \in Usuario /\ Delete("Usuario.delete", <<"Usuario", i>>)
Restaurante_delete(i) == i \in Restaurante /\ Delete("Restaurante.delete", <<"Restaurante", i>>)
Garcom_delete(i) == i \in DOMAIN Garcom /\ Delete("Garcom.delete", <<"Garcom", i>>)
Caixa_delete(i) == i \in Caixa /\ Delete("Caixa.delete", <<"Caixa", i>>)
Cozinha_delete(i) == i \in Cozinha /\ Delete("Cozinha.delete", <<"Cozinha", i>>)
Gerente_delete(i) == i \in Gerente /\ Delete("Gerente.delete", <<"Gerente", i>>)
Mesa_delete(i) == i \in DOMAIN Mesa /\ Delete("Mesa.delete", <<"Mesa", i>>)
Cliente_delete(i) == i \in Cliente /\ Delete("Cliente.delete", <<"Cliente", i>>)
Cardapio_delete(i) == i \in DOMAIN Cardapio /\ Delete("Cardapio.delete", <<"Cardapio", i>>)
Categoria_delete(i) == i \in DOMAIN Categoria /\ Delete("Categoria.delete", <<"Categoria", i>>)
ItemCardapio_delete(i) ==
    i \in DOMAIN ItemCardapio /\ Delete("ItemCardapio.delete", <<"ItemCardapio", i>>)
Conta_delete(i) == i \in DOMAIN Conta /\ Delete("Conta.delete", <<"Conta", i>>)
Pedido_delete(i) == i \in DOMAIN Pedido /\ Delete("Pedido.delete", <<"Pedido", i>>)
ItemPedido_delete(i) == i \in DOMAIN ItemPedido /\ Delete("ItemPedido.delete", <<"ItemPedido", i>>)
\* Deleting a payment through its base class or through its subclass.
Pagamento_delete(i) == i \in DOMAIN Pagamento /\ Delete("Pagamento.delete", <<"Pagamento", i>>)
PagamentoDinheiro_delete(i) ==
    i \in PagamentoDinheiro /\ Delete("PagamentoDinheiro.delete", <<"PagamentoDinheiro", i>>)
PagamentoCartao_delete(i) ==
    i \in PagamentoCartao /\ Delete("PagamentoCartao.delete", <<"PagamentoCartao", i>>)
PagamentoCheque_delete(i) ==
    i \in PagamentoCheque /\ Delete("PagamentoCheque.delete", <<"PagamentoCheque", i>>)
\* conta.caixas.remove(caixa)
Conta_caixas_remove(c, k) ==
    /\ <<c, k>> \in Conta_caixas
    /\ Conta_caixas' = Conta_caixas \ {<<c, k>>}
    /\ result' = Ok("Conta.caixas.remove")
    /\ UNCHANGED <<Usuario, Restaurante, Garcom, Caixa, Cozinha, Gerente, Mesa, Cliente,
                   Cardapio, Categoria, ItemCardapio, Conta, Pedido, ItemPedido, Pagamento,
                   PagamentoDinheiro, PagamentoCartao, PagamentoCheque, pc, scope>>

\* ------------------------------------------------------ creation and update
\* The tables named by w get the value w gives them; the others keep theirs.
Write(w) ==
    LET New(t, old) == IF t \in DOMAIN w THEN w[t] ELSE old
    IN  /\ Usuario' = New("Usuario", Usuario)
        /\ Restaurante' = New("Restaurante", Restaurante)
        /\ Garcom' = New("Garcom", Garcom)
        /\ Caixa' = New("Caixa", Caixa)
        /\ Cozinha' = New("Cozinha", Cozinha)
        /\ Gerente' = New("Gerente", Gerente)
        /\ Mesa' = New("Mesa", Mesa)
        /\ Cliente' = New("Cliente", Cliente)
        /\ Cardapio' = New("Cardapio", Cardapio)
        /\ Categoria' = New("Categoria", Categoria)
        /\ ItemCardapio' = New("ItemCardapio", ItemCardapio)
        /\ Conta' = New("Conta", Conta)
        /\ Conta_caixas' = New("Conta_caixas", Conta_caixas)
        /\ Pedido' = New("Pedido", Pedido)
        /\ ItemPedido' = New("ItemPedido", ItemPedido)
        /\ Pagamento' = New("Pagamento", Pagamento)
        /\ PagamentoDinheiro' = New("PagamentoDinheiro", PagamentoDinheiro)
        /\ PagamentoCartao' = New("PagamentoCartao", PagamentoCartao)
        /\ PagamentoCheque' = New("PagamentoCheque", PagamentoCheque)

\* One INSERT or UPDATE statement (or the statements of one save(), which
\* run in one transaction): the rows w are written unless a constraint of
\* the database refuses them: `unique` is what the unique constraints say of
\* the new rows, `refs` are the references they hold.
Save(op, w, unique, refs) ==
    IF unique /\ ForeignKeysHold(Keys, refs)
    THEN Write(w) /\ result' = Ok(op) /\ UNCHANGED <<pc, scope>>
    ELSE Fail(IntegrityError(op))

Ref(t, i, field, tt, j) == <<<<t, i>>, field, <<tt, j>>>>

\* Usuario.objects.create(...): a person with no role.
Usuario_create ==
    /\ Limit(scope, "bare") > 0
    /\ \E i \in FreeIds(Usuario, Ids("Usuario")) :
            Save("Usuario.create", "Usuario" :> (Usuario \cup {i}), TRUE, {})

Restaurante_create ==
    \E i \in FreeIds(Restaurante, Ids("Restaurante")) :
        Save("Restaurante.create", "Restaurante" :> (Restaurante \cup {i}), TRUE, {})

\* Garcom.objects.create(restaurante=r, ...): a new Usuario row and the
\* Garcom row that points to it.
Garcom_create(r) ==
    /\ Room(DOMAIN Garcom, "Garcom")
    /\ \E i \in FreeIds(Usuario, Ids("Usuario")) :
            Save("Garcom.create",
                 ("Usuario" :> (Usuario \cup {i}))
                     @@ ("Garcom" :> (Garcom @@ (i :> [restaurante |-> r]))),
                 TRUE, {Ref("Garcom", i, "Garcom.restaurante", "Restaurante", r)})

Caixa_create ==
    /\ Room(Caixa, "Caixa")
    /\ \E i \in FreeIds(Usuario, Ids("Usuario")) :
            Save("Caixa.create",
                 ("Usuario" :> (Usuario \cup {i})) @@ ("Caixa" :> (Caixa \cup {i})), TRUE, {})

Cozinha_create ==
    /\ Room(Cozinha, "Cozinha")
    /\ \E i \in FreeIds(Usuario, Ids("Usuario")) :
            Save("Cozinha.create",
                 ("Usuario" :> (Usuario \cup {i})) @@ ("Cozinha" :> (Cozinha \cup {i})), TRUE, {})

Gerente_create ==
    /\ Room(Gerente, "Gerente")
    /\ \E i \in FreeIds(Usuario, Ids("Usuario")) :
            Save("Gerente.create",
                 ("Usuario" :> (Usuario \cup {i})) @@ ("Gerente" :> (Gerente \cup {i})), TRUE, {})

\* Role.objects.create(usuario_ptr=u, ...) for a person u that exists: the
\* Usuario row is updated in place and a row of the role's table inserted.
\* The only constraint is the primary key of the role's own table: nothing
\* looks at the tables of the other roles.
Garcom_create_ptr(u, r) ==
    /\ Limit(scope, "ptr") > 0 /\ Room(DOMAIN Garcom, "Garcom")
    /\ u \in Usuario
    /\ Save("Garcom.create(usuario_ptr)", "Garcom" :> (Garcom @@ (u :> [restaurante |-> r])),
            u \notin DOMAIN Garcom,
            {Ref("Garcom", u, "Garcom.usuario_ptr", "Usuario", u),
             Ref("Garcom", u, "Garcom.restaurante", "Restaurante", r)})

Caixa_create_ptr(u) ==
    /\ Limit(scope, "ptr") > 0 /\ Room(Caixa, "Caixa")
    /\ u \in Usuario
    /\ Save("Caixa.create(usuario_ptr)", "Caixa" :> (Caixa \cup {u}), u \notin Caixa,
            {Ref("Caixa", u, "Caixa.usuario_ptr", "Usuario", u)})

Cozinha_create_ptr(u) ==
    /\ Limit(scope, "ptr") > 0 /\ Room(Cozinha, "Cozinha")
    /\ u \in Usuario
    /\ Save("Cozinha.create(usuario_ptr)", "Cozinha" :> (Cozinha \cup {u}), u \notin Cozinha,
            {Ref("Cozinha", u, "Cozinha.usuario_ptr", "Usuario", u)})

Gerente_create_ptr(u) ==
    /\ Limit(scope, "ptr") > 0 /\ Room(Gerente, "Gerente")
    /\ u \in Usuario
    /\ Save("Gerente.create(usuario_ptr)", "Gerente" :> (Gerente \cup {u}), u \notin Gerente,
            {Ref("Gerente", u, "Gerente.usuario_ptr", "Usuario", u)})

\* Mesa.objects.create(restaurante=r, garcom=g, ...)
Mesa_create(r, g) ==
    \E i \in FreeIds(DOMAIN Mesa, Ids("Mesa")) :
        Save("Mesa.create", "Mesa" :> (Mesa @@ (i :> [restaurante |-> r, garcom |-> g])), TRUE,
             {Ref("Mesa", i, "Mesa.restaurante", "Restaurante", r),
              Ref("Mesa", i, "Mesa.garcom", "Garcom", g)})

Cliente_create ==
    \E i \in FreeIds(Cliente, Ids("Cliente")) :
        Save("Cliente.create", "Cliente" :> (Cliente \cup {i}), TRUE, {})

\* Cardapio.objects.create(gerente=g)
Cardapio_create(g) ==
    \E i \in FreeIds(DOMAIN Cardapio, Ids("Cardapio")) :
        Save("Cardapio.create", "Cardapio" :> (Cardapio @@ (i :> [gerente |-> g])),
             Cardapio_gerente_unique => \A c \in DOMAIN Cardapio : Cardapio[c].gerente # g,
             {Ref("Cardapio", i, "Cardapio.gerente", "Gerente", g)})

\* Categoria.objects.create(categoria_pai=p, ...), p possibly None
Categoria_create(p) ==
    \E i \in FreeIds(DOMAIN Categoria, Ids("Categoria")) :
        Save("Categoria.create", "Categoria" :> (Categoria @@ (i :> [categoria_pai |-> p])), TRUE,
             IF p = NULL THEN {}
             ELSE {Ref("Categoria", i, "Categoria.categoria_pai", "Categoria", p)})

\* c.categoria_pai = p; c.save()
Categoria_save(c, p) ==
    /\ c \in DOMAIN Categoria
    /\ Save("Categoria.save", "Categoria" :> [Categoria EXCEPT ![c].categoria_pai = p], TRUE,
            IF p = NULL THEN {}
            ELSE {Ref("Categoria", c, "Categoria.categoria_pai", "Categoria", p)})

ItemCardapio_create(cd, ct) ==
    \E i \in FreeIds(DOMAIN ItemCardapio, Ids("ItemCardapio")) :
        Save("ItemCardapio.create",
             "ItemCardapio" :> (ItemCardapio @@ (i :> [cardapio |-> cd, categoria |-> ct])), TRUE,
             {Ref("ItemCardapio", i, "ItemCardapio.cardapio", "Cardapio", cd),
              Ref("ItemCardapio", i, "ItemCardapio.categoria", "Categoria", ct)})

Conta_create(m) ==
    \E i \in FreeIds(DOMAIN Conta, Ids("Conta")) :
        Save("Conta.create", "Conta" :> (Conta @@ (i :> [mesa |-> m])), TRUE,
             {Ref("Conta", i, "Conta.mesa", "Mesa", m)})

\* conta.caixas.add(caixa): a link that is already there is left alone.
Conta_caixas_add(c, k) ==
    /\ Limit(scope, "Caixa") > 0
    /\ c \in DOMAIN Conta
    /\ Save("Conta.caixas.add", "Conta_caixas" :> (Conta_caixas \cup {<<c, k>>}), TRUE,
            {Ref("Conta_caixas", <<c, k>>, "Conta_caixas.conta", "Conta", c),
             Ref("Conta_caixas", <<c, k>>, "Conta_caixas.caixa", "Caixa", k)})

Pedido_create(c, cl, cz) ==
    \E i \in FreeIds(DOMAIN Pedido, Ids("Pedido")) :
        Save("Pedido.create",
             "Pedido" :> (Pedido @@ (i :> [conta |-> c, cliente |-> cl, cozinha |-> cz])), TRUE,
             {Ref("Pedido", i, "Pedido.conta", "Conta", c),
              Ref("Pedido", i, "Pedido.cliente", "Cliente", cl),
              Ref("Pedido", i, "Pedido.cozinha", "Cozinha", cz)})

ItemPedido_create(p, it) ==
    \E i \in FreeIds(DOMAIN ItemPedido, Ids("ItemPedido")) :
        Save("ItemPedido.create",
             "ItemPedido" :> (ItemPedido @@ (i :> [pedido |-> p, item_cardapio |-> it])), TRUE,
             {Ref("ItemPedido", i, "ItemPedido.pedido", "Pedido", p),
              Ref("ItemPedido", i, "ItemPedido.item_cardapio", "ItemCardapio", it)})

\* The unique constraint of Pagamento.conta, asked of a new row for conta c.
Pagamento_conta_free_unchecked(c) == TRUE
Pagamento_conta_free(c) ==
    Pagamento_conta_unique => \A p \in DOMAIN Pagamento : Pagamento[p].conta # c

PagamentoKinds == {"Pagamento", "PagamentoDinheiro", "PagamentoCartao", "PagamentoCheque"}

\* kind.objects.create(conta=c, valor=...): the Pagamento row and, for a
\* subclass, the row of the subclass, in one transaction.
Pagamento_create(kind, c) ==
    /\ Limit(scope, IF kind = "Pagamento" THEN "bare" ELSE kind) > 0
    /\ \E i \in FreeIds(DOMAIN Pagamento, Ids("Pagamento")) :
            Save(kind \o ".create",
                 ("Pagamento" :> (Pagamento @@ (i :> [conta |-> c])))
                     @@ (CASE kind = "PagamentoDinheiro" ->
                                "PagamentoDinheiro" :> (PagamentoDinheiro \cup {i})
                           [] kind = "PagamentoCartao" ->
                                "PagamentoCartao" :> (PagamentoCartao \cup {i})
                           [] kind = "PagamentoCheque" ->
                                "PagamentoCheque" :> (PagamentoCheque \cup {i})
                           [] OTHER -> "Pagamento" :> (Pagamento @@ (i :> [conta |-> c]))),
                 Pagamento_conta_free(c),
                 {Ref("Pagamento", i, "Pagamento.conta", "Conta", c)})

\* ------------------------------------------------------------ specification
NoResult == Ok("")

\* The database as migrated: every table empty.
Init ==
    /\ Usuario = {} /\ Restaurante = {} /\ Garcom = <<>> /\ Caixa = {} /\ Cozinha = {}
    /\ Gerente = {} /\ Mesa = <<>> /\ Cliente = {} /\ Cardapio = <<>> /\ Categoria = <<>>
    /\ ItemCardapio = <<>> /\ Conta = <<>> /\ Conta_caixas = {} /\ Pedido = <<>>
    /\ ItemPedido = <<>> /\ Pagamento = <<>> /\ PagamentoDinheiro = {}
    /\ PagamentoCartao = {} /\ PagamentoCheque = {}
    /\ result = NoResult
    /\ pc = [p \in Procs |-> [at |-> "idle", conta |-> NULL, kind |-> "", id |-> NULL]]

Next ==
    \/ Usuario_create
    \/ Restaurante_create
    \/ \E r \in Ids("Restaurante") : Garcom_create(r)
    \/ Caixa_create
    \/ Cozinha_create
    \/ Gerente_create
    \/ \E u \in Ids("Usuario"), r \in Ids("Restaurante") : Garcom_create_ptr(u, r)
    \/ \E u \in Ids("Usuario") : Caixa_create_ptr(u)
    \/ \E u \in Ids("Usuario") : Cozinha_create_ptr(u)
    \/ \E u \in Ids("Usuario") : Gerente_create_ptr(u)
    \/ \E r \in Ids("Restaurante"), g \in Ids("Usuario") : Mesa_create(r, g)
    \/ Cliente_create
    \/ \E g \in Ids("Usuario") : Cardapio_create(g)
    \/ \E p \in Ids("Categoria") \cup {NULL} : Categoria_create(p)
    \/ \E c \in Ids("Categoria"), p \in Ids("Categoria") \cup {NULL} : Categoria_save(c, p)
    \/ \E cd \in Ids("Cardapio"), ct \in Ids("Categoria") : ItemCardapio_create(cd, ct)
    \/ \E m \in Ids("Mesa") : Conta_create(m)
    \/ \E c \in Ids("Conta"), k \in Ids("Usuario") : Conta_caixas_add(c, k)
    \/ \E c \in Ids("Conta"), k \in Ids("Usuario") : Conta_caixas_remove(c, k)
    \/ \E c \in Ids("Conta"), cl \in Ids("Cliente"), cz \in Ids("Usuario") : Pedido_create(c, cl, cz)
    \/ \E p \in Ids("Pedido"), it \in Ids("ItemCardapio") : ItemPedido_create(p, it)
    \/ \E kind \in PagamentoKinds, c \in Ids("Conta") : Pagamento_create(kind, c)
    \/ \E i \in Ids("Usuario") : Usuario_delete(i)
    \/ \E i \in Ids("Restaurante") : Restaurante_delete(i)
    \/ \E i \in Ids("Usuario") : Garcom_delete(i)
    \/ \E i \in Ids("Usuario") : Caixa_delete(i)
    \/ \E i \in Ids("Usuario") : Cozinha_delete(i)
    \/ \E i \in Ids("Usuario") : Gerente_delete(i)
    \/ \E i \in Ids("Mesa") : Mesa_delete(i)
    \/ \E i \in Ids("Cliente") : Cliente_delete(i)
    \/ \E i \in Ids("Cardapio") : Cardapio_delete(i)
    \/ \E i \in Ids("Categoria") : Categoria_delete(i)
    \/ \E i \in Ids("ItemCardapio") : ItemCardapio_delete(i)
    \/ \E i \in Ids("Conta") : Conta_delete(i)
    \/ \E i \in Ids("Pedido") : Pedido_delete(i)
    \/ \E i \in Ids("ItemPedido") : ItemPedido_delete(i)
    \/ \E i \in Ids("Pagamento") : Pagamento_delete(i)
    \/ \E i \in Ids("Pagamento") : PagamentoDinheiro_delete(i)
    \/ \E i \in Ids("Pagamento") : PagamentoCartao_delete(i)
    \/ \E i \in Ids("Pagamento") : PagamentoCheque_delete(i)

InitScoped == Init /\ scope \in Scopes

Spec == InitScoped /\ [][Next]_vars

\* ------------------------------------------------- concurrent pay operations
\* Two clients pay at the same time.  Each runs kind.objects.create(conta=c):
\* the INSERT into the table of Pagamento, then, for a subclass, the INSERT
\* into the table of the subclass.  The database checks the constraints of a
\* row as it is inserted; the rows of the other client may come in between
\* the two statements.
Pay_insert(p, kind, c) ==
    /\ pc[p].at = "idle"
    /\ c \in DOMAIN Conta
    /\ \E i \in FreeIds(DOMAIN Pagamento, Ids("Pagamento")) :
         IF Pagamento_conta_free(c)
            /\ ForeignKeysHold(Keys, {Ref("Pagamento", i, "Pagamento.conta", "Conta", c)})
         THEN /\ Write("Pagamento" :> (Pagamento @@ (i :> [conta |-> c])))
              /\ pc' = [pc EXCEPT ![p] = [at |-> IF kind = "Pagamento" THEN "done" ELSE "child",
                                          conta |-> c, kind |-> kind, id |-> i]]
              /\ result' = Ok(kind \o ".create")
              /\ UNCHANGED scope
         ELSE /\ pc' = [pc EXCEPT ![p] = [at |-> "failed", conta |-> c, kind |-> kind,
                                          id |-> NULL]]
              /\ result' = IntegrityError(kind \o ".create")
              /\ UNCHANGED <<store, scope>>

Pay_insert_child(p) ==
    /\ pc[p].at = "child"
    /\ Write(CASE pc[p].kind = "PagamentoDinheiro" ->
                    "PagamentoDinheiro" :> (PagamentoDinheiro \cup {pc[p].id})
               [] pc[p].kind = "PagamentoCartao" ->
                    "PagamentoCartao" :> (PagamentoCartao \cup {pc[p].id})
               [] OTHER -> "PagamentoCheque" :> (PagamentoCheque \cup {pc[p].id}))
    /\ pc' = [pc EXCEPT ![p].at = "done"]
    /\ result' = Ok(pc[p].kind \o ".create")
    /\ UNCHANGED scope

InitPay == Init /\ scope = "pay"

\* The bills are set up, then paid by the two clients; nothing else runs.
NextPay ==
    \/ Restaurante_create
    \/ \E r \in Ids("Restaurante") : Garcom_create(r)
    \/ \E r \in Ids("Restaurante"), g \in Ids("Usuario") : Mesa_create(r, g)
    \/ \E m \in Ids("Mesa") : Conta_create(m)
    \/ \E p \in Procs, kind \in PagamentoKinds, c \in Ids("Conta") : Pay_insert(p, kind, c)
    \/ \E p \in Procs : Pay_insert_child(p)

SpecPay == InitPay /\ [][NextPay]_vars

\* =================================================================== claims
Paid(c) == \E p \in DOMAIN Pagamento : Pagamento[p].conta = c
Roles(u) == {t \in {"Garcom", "Caixa", "Cozinha", "Gerente"} : <<t, u>> \in Keys}

\* The cascade and protect rules as the design states them.
StatedCascade ==
    {"Mesa.restaurante", "Categoria.categoria_pai", "ItemCardapio.categoria",
     "ItemCardapio.cardapio", "Pedido.conta", "ItemPedido.pedido", "Pagamento.conta"}
StatedProtect ==
    {"Garcom.restaurante", "Mesa.garcom", "Cardapio.gerente", "Conta.mesa", "Pedido.cliente",
     "Pedido.cozinha", "ItemPedido.item_cardapio"}
\* Rows that are part of an entity: the row of a payment's method goes with
\* the payment, a link to a cashier with the bill.
PartOf ==
    {"PagamentoDinheiro.pagamento_ptr", "PagamentoCartao.pagamento_ptr",
     "PagamentoCheque.pagamento_ptr", "Conta_caixas.conta"}
RolePtr ==
    {"Garcom.usuario_ptr", "Caixa.usuario_ptr", "Cozinha.usuario_ptr", "Gerente.usuario_ptr"}

\* The rows reached from S by following the fields `via` from target to
\* referrer, transitively.
RECURSIVE Reach(_, _, _)
Reach(S, R, via) ==
    LET N == S \cup {r[1] : r \in {x \in R : x[3] \in S /\ x[2] \in via}}
    IN IF N = S THEN S ELSE Reach(N, R, via)

SurvivorsUnchanged == Keys' \subseteq Keys /\ Refs' = {r \in Refs : r[1] \in Keys'}

C1_AtMostOnePagamento ==
    \A p, q \in DOMAIN Pagamento : Pagamento[p].conta = Pagamento[q].conta => p = q
\* C1: no bill is referred to by more than one payment, and creating a
\* payment for a bill that has one is refused and adds no row.
C1_OnePaymentPerBill ==
    /\ []C1_AtMostOnePagamento
    /\ [][\A kind \in PagamentoKinds, c \in DOMAIN Conta :
            (Paid(c) /\ Pagamento_create(kind, c))
                => (result'.status = "IntegrityError" /\ UNCHANGED store)]_vars
\* A payment was just refused although every bill it could name exists.
C1_Witness ==
    /\ result = IntegrityError("PagamentoCartao.create")
    /\ DOMAIN Conta = Ids("Conta")
    /\ \E c \in DOMAIN Conta : Paid(c)

\* C2: deleting a server (as Garcom or as the Usuario it is) that a table
\* refers to, or a menu item that an order line refers to, raises
\* ProtectedError (an IntegrityError) and leaves every row as it was.
C2_ProtectedDeleteFails ==
    [][/\ \A g \in DOMAIN Garcom :
            ((\E m \in DOMAIN Mesa : Mesa[m].garcom = g)
                /\ (Garcom_delete(g) \/ Usuario_delete(g)))
                => (result'.status = "ProtectedError" /\ UNCHANGED store)
       /\ \A i \in DOMAIN ItemCardapio :
            ((\E l \in DOMAIN ItemPedido : ItemPedido[l].item_cardapio = i)
                /\ ItemCardapio_delete(i))
                => (result'.status = "ProtectedError" /\ UNCHANGED store)]_vars
C2_Witness ==
    /\ result = ProtectedError("ItemCardapio.delete")
    /\ ItemPedido # <<>>
\* The same for a server that a table refers to.
C2_WitnessGarcom ==
    /\ result = ProtectedError("Garcom.delete")
    /\ Mesa # <<>>

C3_Cascade(k) == Reach({k}, Refs, StatedCascade \cup PartOf)
\* C3: a delete of a Restaurante, Cardapio, Categoria, Conta or Pedido that
\* succeeds removes the row and the rows reached from it by the stated
\* cascade rules (with the rows that are part of them), and nothing else;
\* the rows that stay keep their references.
C3_CascadeExact ==
    [][\A k \in {x \in Keys : x[1] \in {"Restaurante", "Cardapio", "Categoria", "Conta",
                                         "Pedido"}} :
            (result' = Deleted(k[1] \o ".delete", result'.deleted)
                /\ Delete(k[1] \o ".delete", k))
                => (Keys \ Keys' = C3_Cascade(k) /\ SurvivorsUnchanged)]_vars
\* A bill was deleted with its order, order line, payment and card payment.
C3_Witness ==
    /\ result.op = "Conta.delete"
    /\ result.status = "ok"
    /\ result.deleted >= 5

\* C4: no person is the base of two role rows.
C4_RolesDisjoint == \A u \in Usuario : Cardinality(Roles(u)) <= 1

C5_Ancestors(c) == Reach({c}, {<<r[3], r[2], r[1]>> : r \in Refs}, {"Categoria.categoria_pai"})
\* C5: no category is its own ancestor through categoria_pai.
C5_Acyclic ==
    \A c \in DOMAIN Categoria :
        Categoria[c].categoria_pai # NULL
            => <<"Categoria", c>> \notin C5_Ancestors(<<"Categoria", Categoria[c].categoria_pai>>)

\* C6: once the two concurrent pay operations on one bill have both ended,
\* the bill has exactly one payment and exactly one operation has failed.
C6_OneSuccessOneConflict ==
    \A c \in DOMAIN Conta :
        (\A p \in Procs : pc[p].conta = c /\ pc[p].at \in {"done", "failed"})
            => /\ Cardinality({i \in DOMAIN Pagamento : Pagamento[i].conta = c}) = 1
               /\ Cardinality({p \in Procs : pc[p].at = "failed"}) = 1
               /\ Cardinality({p \in Procs : pc[p].at = "done"}) = 1
\* Both operations have ended on the same bill, one of them having created
\* a card payment in its two statements.
C6_Witness ==
    /\ \A p \in Procs : pc[p].conta = pc[1].conta /\ pc[p].at \in {"done", "failed"}
    /\ \E p \in Procs : pc[p].at = "done" /\ pc[p].kind = "PagamentoCartao"

\* C7 as stated: deleting a table that bills refer to succeeds and removes
\* the bills with the table.
C7_DeleteCascadesToContas ==
    [][\A m \in DOMAIN Mesa :
            ((\E c \in DOMAIN Conta : Conta[c].mesa = m) /\ Mesa_delete(m))
                => /\ result'.status = "ok"
                   /\ m \notin DOMAIN Mesa'
                   /\ \A c \in DOMAIN Conta' : Conta'[c].mesa # m]_vars
\* C7 as the code has it: deleting a table that bills refer to raises
\* ProtectedError and removes neither the table nor the bills.
C7_DeleteProtectedByContas ==
    [][\A m \in DOMAIN Mesa :
            ((\E c \in DOMAIN Conta : Conta[c].mesa = m) /\ Mesa_delete(m))
                => (result'.status = "ProtectedError" /\ UNCHANGED store)]_vars
C7_Witness ==
    /\ result = ProtectedError("Mesa.delete")
    /\ \E c \in DOMAIN Conta : Conta[c].mesa \in DOMAIN Mesa

\* C8: the server of every table works at the restaurant of the table.
C8_ServerOfSameRestaurante ==
    \A m \in DOMAIN Mesa : Garcom[Mesa[m].garcom].restaurante = Mesa[m].restaurante

\* C9: every reference held by a row, the parent links of the role and
\* payment-method rows and the links of Conta.caixas included, points to a
\* row that exists.
C9_ReferentialIntegrity == \A r \in Refs : r[3] \in Keys
\* The database has just refused the delete of a role row whose person has
\* another role.
C9_Witness ==
    /\ result = IntegrityError("Garcom.delete")
    /\ \E u \in DOMAIN Garcom : Cardinality(Roles(u)) > 1

C10_CascadeSet(k) ==
    LET S == Reach({k}, Refs, StatedCascade \cup PartOf \cup RolePtr \cup {"Conta_caixas.caixa"})
    IN Reach(S \cup CollectParents(S), Refs,
             StatedCascade \cup PartOf \cup RolePtr \cup {"Conta_caixas.caixa"})
\* C10: a delete whose cascade set holds a row that a row outside the set
\* refers to through a protected relationship fails and removes nothing.
C10_AllOrNothing ==
    [][\A k \in {x \in Keys : x[1] # "Conta_caixas"} :
            LET S == C10_CascadeSet(k)
            IN  (/\ result'.op = k[1] \o ".delete"
                 /\ Delete(k[1] \o ".delete", k)
                 /\ \E r \in Refs : r[2] \in StatedProtect /\ r[3] \in S /\ r[1] \notin S)
                    => (result'.status # "ok" /\ UNCHANGED store)]_vars
\* The delete of a category was refused because of an order line on one of
\* its menu items.
C10_Witness ==
    /\ result = ProtectedError("Categoria.delete")
    /\ ItemPedido # <<>>

====
